---------------------------- MODULE Spec2Model ----------------------------
(***************************************************************************)
(* Model of the flight-delay pipeline: challenge/model.py (DelayModel:     *)
(* preprocess, fit, predict and the timestamp derivations) and             *)
(* challenge/api.py (startup training and the /predict handler).           *)
(*                                                                         *)
(* A timestamp string is the record of its six numeric fields plus `fmt`,  *)
(* which says whether the text has the layout '%Y-%m-%d %H:%M:%S'.  A data *)
(* frame is [columns, rows]: rows are functions from column name to cell.  *)
(***************************************************************************)
EXTENDS Integers, Sequences, FiniteSets, TLC

VARIABLES
    _model,            \* DelayModel._model
    _label_encoders,   \* DelayModel._label_encoders
    _feature_columns,  \* DelayModel._feature_columns
    data,              \* the caller's data frame, as it is after the last call
    ret,               \* the last call: operation, arguments, outcome
    startup,           \* api.py module import: "pending", "serving", "aborted"
    fit_done           \* history: some fit call has returned without raising

vars == <<_model, _label_encoders, _feature_columns, data, ret, startup, fit_done>>

None == "None"

\* self._model = None
NoModel == [kind |-> "None"]

NoCall == [op |-> "none"]

-----------------------------------------------------------------------------
(* datetime *)

Stamp(Y, M, D, h, m, s) ==
    [fmt |-> TRUE, Y |-> Y, M |-> M, D |-> D, h |-> h, m |-> m, s |-> s]

IsLeap(y) == (y % 4 = 0 /\ y % 100 # 0) \/ y % 400 = 0

DaysInMonth(y, m) ==
    IF m = 2 THEN (IF IsLeap(y) THEN 29 ELSE 28)
    ELSE IF m \in {4, 6, 9, 11} THEN 30 ELSE 31

\* datetime.strptime(text, '%Y-%m-%d %H:%M:%S') returns (does not raise ValueError)
Parses(st) ==
    /\ st.fmt
    /\ st.Y \in 1..9999
    /\ st.M \in 1..12
    /\ st.D \in 1..DaysInMonth(st.Y, st.M)
    /\ st.h \in 0..23
    /\ st.m \in 0..59
    /\ st.s \in 0..59

\* datetime.time(): hour, minute, second
TimeOf(st) == <<st.h, st.m, st.s>>

\* datetime.strptime("HH:MM", '%H:%M').time()
HM(h, m) == <<h, m, 0>>

\* datetime.strptime('D-Mon', '%d-%b').replace(year=y): midnight of that day
DayOf(y, M, D) == Stamp(y, M, D, 0, 0, 0)

DateTimeOf(st) == <<st.Y, st.M, st.D, st.h, st.m, st.s>>

RECURSIVE LexLT(_, _)
LexLT(a, b) ==
    IF a = <<>> THEN FALSE
    ELSE IF Head(a) # Head(b) THEN Head(a) < Head(b)
    ELSE LexLT(Tail(a), Tail(b))

\* time.__gt__, time.__lt__
TimeGT(a, b) == LexLT(b, a)
TimeLT(a, b) == LexLT(a, b)

\* datetime.__ge__, datetime.__le__
DateTimeGE(a, b) == ~LexLT(DateTimeOf(a), DateTimeOf(b))
DateTimeLE(a, b) == ~LexLT(DateTimeOf(b), DateTimeOf(a))

RECURSIVE DaysBeforeMonth(_, _)
DaysBeforeMonth(y, m) ==
    IF m = 1 THEN 0 ELSE DaysBeforeMonth(y, m - 1) + DaysInMonth(y, m - 1)

\* days before January 1st of year y (proleptic Gregorian ordinal)
DaysBeforeYear(y) ==
    (y - 1) * 365 + ((y - 1) \div 4) - ((y - 1) \div 100) + ((y - 1) \div 400)

Ordinal(st) == DaysBeforeYear(st.Y) + DaysBeforeMonth(st.Y, st.M) + st.D

\* (a - b).total_seconds()
TotalSeconds(a, b) ==
    (Ordinal(a) - Ordinal(b)) * 86400
      + (a.h - b.h) * 3600 + (a.m - b.m) * 60 + (a.s - b.s)

-----------------------------------------------------------------------------
(* DelayModel: the timestamp derivations *)

_get_period_day_nonstrict(date) ==
    LET date_time == TimeOf(date)
    IN  IF ~LexLT(date_time, HM(5, 0)) /\ ~LexLT(HM(11, 59), date_time)
            THEN "mañana"
        ELSE IF ~LexLT(date_time, HM(12, 0)) /\ ~LexLT(HM(18, 59), date_time)
            THEN "tarde"
        ELSE IF \/ (~LexLT(date_time, HM(19, 0)) /\ ~LexLT(HM(23, 59), date_time))
                \/ (~LexLT(date_time, HM(0, 0)) /\ ~LexLT(HM(4, 59), date_time))
            THEN "noche"
        ELSE None

_get_period_day(date) ==
    LET date_time     == TimeOf(date)
        morning_min   == HM(5, 0)
        morning_max   == HM(11, 59)
        afternoon_min == HM(12, 0)
        afternoon_max == HM(18, 59)
        evening_min   == HM(19, 0)
        evening_max   == HM(23, 59)
        night_min     == HM(0, 0)
        night_max     == HM(4, 59)
    IN  IF TimeGT(date_time, morning_min) /\ TimeLT(date_time, morning_max)
            THEN "mañana"
        ELSE IF TimeGT(date_time, afternoon_min) /\ TimeLT(date_time, afternoon_max)
            THEN "tarde"
        ELSE IF \/ (TimeGT(date_time, evening_min) /\ TimeLT(date_time, evening_max))
                \/ (TimeGT(date_time, night_min) /\ TimeLT(date_time, night_max))
            THEN "noche"
        ELSE None

_is_high_season(fecha) ==
    LET fecha_anio == fecha.Y
        range1_min == DayOf(fecha_anio, 12, 15)
        range1_max == DayOf(fecha_anio, 12, 31)
        range2_min == DayOf(fecha_anio, 1, 1)
        range2_max == DayOf(fecha_anio, 3, 3)
        range3_min == DayOf(fecha_anio, 7, 15)
        range3_max == DayOf(fecha_anio, 7, 31)
        range4_min == DayOf(fecha_anio, 9, 11)
        range4_max == DayOf(fecha_anio, 9, 30)
    IN  IF \/ (DateTimeGE(fecha, range1_min) /\ DateTimeLE(fecha, range1_max))
           \/ (DateTimeGE(fecha, range2_min) /\ DateTimeLE(fecha, range2_max))
           \/ (DateTimeGE(fecha, range3_min) /\ DateTimeLE(fecha, range3_max))
           \/ (DateTimeGE(fecha, range4_min) /\ DateTimeLE(fecha, range4_max))
        THEN 1
        ELSE 0

\* minutes as the exact fraction num/den of the float total_seconds() / 60
_get_min_diff(row) ==
    LET fecha_o == row["Fecha-O"]
        fecha_i == row["Fecha-I"]
    IN  [num |-> TotalSeconds(fecha_o, fecha_i), den |-> 60]

-----------------------------------------------------------------------------
(* The derivations applied to one timestamp *)

Frame(cols, rows) == [columns |-> cols, rows |-> rows]

StampFrame(st) == Frame({"Fecha-I"}, <<("Fecha-I" :> st)>>)

DefaultColumns ==
    <<"OPERA_Latin American Wings", "MES_7", "MES_10", "OPERA_Grupo LATAM",
      "MES_12", "TIPOVUELO_I", "MES_4", "MES_11", "OPERA_Sky Airline",
      "OPERA_Copa Air">>

\* DelayModel()
Constructed ==
    /\ _model = NoModel
    /\ _label_encoders = <<>>
    /\ _feature_columns = DefaultColumns
    /\ ret = NoCall
    /\ startup = "pending"
    /\ fit_done = FALSE

ObjectUnchanged ==
    UNCHANGED <<_model, _label_encoders, _feature_columns, startup, fit_done>>

\* every second of one day
PeriodInputs ==
    {Stamp(2023, 1, 1, h, m, s) : h \in 0..23, m \in 0..59, s \in 0..59}

InitPeriod ==
    /\ Constructed
    /\ \E st \in PeriodInputs : data = StampFrame(st)

GetPeriodDay ==
    /\ ret = NoCall
    /\ LET date == data.rows[1]["Fecha-I"]
       IN  ret' = [op |-> "_get_period_day", date |-> date,
                   result |-> IF Parses(date) THEN _get_period_day(date)
                              ELSE "ValueError"]
    /\ UNCHANGED data
    /\ ObjectUnchanged

NextPeriod == GetPeriodDay

SpecPeriod == InitPeriod /\ [][NextPeriod]_vars

SeasonYears == {2023, 2024}

SeasonTimes == {<<0, 0, 0>>, <<0, 0, 1>>, <<10, 0, 0>>, <<23, 59, 59>>}

\* every day of a common and of a leap year (and the day numbers no month has)
SeasonInputs ==
    {Stamp(y, M, D, t[1], t[2], t[3]) :
        y \in SeasonYears, M \in 1..12, D \in 1..31, t \in SeasonTimes}

InitSeason ==
    /\ Constructed
    /\ \E st \in SeasonInputs : data = StampFrame(st)

IsHighSeason ==
    /\ ret = NoCall
    /\ LET fecha == data.rows[1]["Fecha-I"]
       IN  ret' = [op |-> "_is_high_season", fecha |-> fecha,
                   status |-> IF Parses(fecha) THEN "ok" ELSE "ValueError",
                   result |-> IF Parses(fecha) THEN _is_high_season(fecha) ELSE 0]
    /\ UNCHANGED data
    /\ ObjectUnchanged

NextSeason == IsHighSeason

SpecSeason == InitSeason /\ [][NextSeason]_vars

-----------------------------------------------------------------------------
(* DelayModel.preprocess *)

SeqToSet(q) == {q[i] : i \in DOMAIN q}

\* pandas names a dummy column f"{prefix}_{level}": str(level) of a month is its
\* decimal text, of an airline or flight type the text itself
LevelText(column, level) == IF column = "MES" THEN ToString(level) ELSE level

DummyName(prefix, column, level) == prefix \o "_" \o LevelText(column, level)

\* pd.get_dummies(frame[column], prefix=prefix): one indicator column per distinct
\* level of the column, 1 in the rows that hold that level
get_dummies(rows, column, prefix) ==
    {[name  |-> DummyName(prefix, column, level),
      cells |-> [i \in DOMAIN rows |-> IF rows[i][column] = level THEN 1 ELSE 0]] :
        level \in {rows[i][column] : i \in DOMAIN rows}}

\* pd.concat([...], axis=1): the columns of the three tables side by side
concat(opera_dummies, mes_dummies, tipovuelo_dummies) ==
    ({1} \X opera_dummies) \union ({2} \X mes_dummies) \union ({3} \X tipovuelo_dummies)

HasDuplicateLabels(features) ==
    \E a \in features, b \in features : a # b /\ a[2].name = b[2].name

\* features.reindex(columns=columns, fill_value=0): the named columns in the given
\* order, a column of zeros for a name the table does not have
reindex(features, n, columns) ==
    [i \in 1..n |->
        [j \in DOMAIN columns |->
            IF \E f \in features : f[2].name = columns[j]
            THEN (CHOOSE f \in features : f[2].name = columns[j])[2].cells[i]
            ELSE 0]]

threshold_in_minutes == 15

delay_at_least(min_diff) ==
    IF min_diff.num >= threshold_in_minutes * min_diff.den THEN 1 ELSE 0

\* np.where(min_diff > threshold_in_minutes, 1, 0)
delay(min_diff) ==
    IF min_diff.num > threshold_in_minutes * min_diff.den THEN 1 ELSE 0

Raised(kind, line) ==
    [status |-> kind, line |-> line, features |-> <<>>, target |-> None]

\* lines 97-98: the two derivations over the 'Fecha-I' column
DeriveFromFechaI(d) ==
    IF "Fecha-I" \notin d.columns THEN "KeyError"
    ELSE IF \E i \in DOMAIN d.rows : ~Parses(d.rows[i]["Fecha-I"]) THEN "ValueError"
    ELSE "ok"

\* line 99 on a frame with rows: _get_min_diff on every row
DeriveMinDiff(d) ==
    IF "Fecha-O" \notin d.columns THEN "KeyError"
    ELSE IF \E i \in DOMAIN d.rows : ~Parses(d.rows[i]["Fecha-O"]) THEN "ValueError"
    ELSE "ok"

\* lines 101-126, reached once the derived columns are in place
Encode(d, target_column, columns) ==
    LET rows == d.rows
        n    == Len(rows)
        min_diff == [i \in 1..n |-> _get_min_diff(rows[i])]
        delays   == [i \in 1..n |-> delay(min_diff[i])]
    IN  IF ~({"OPERA", "MES", "TIPOVUELO"} \subseteq d.columns)
            THEN Raised("KeyError", 108)
        ELSE
            LET opera_dummies     == get_dummies(rows, "OPERA", "OPERA")
                mes_dummies       == get_dummies(rows, "MES", "MES")
                tipovuelo_dummies == get_dummies(rows, "TIPOVUELO", "TIPOVUELO")
                features == concat(opera_dummies, mes_dummies, tipovuelo_dummies)
            IN  IF HasDuplicateLabels(features) THEN Raised("ValueError", 120)
                ELSE [status   |-> "ok",
                      line     |-> IF target_column # None THEN 124 ELSE 126,
                      features |-> reindex(features, n, columns),
                      target   |-> IF target_column # None THEN delays ELSE None]

\* The outcomes of preprocess(d, target_column).  On a frame without rows,
\* DataFrame.apply(axis=1) yields a frame, not a column, and whether assigning it
\* to 'min_diff' raises is decided by the pandas build: both outcomes are kept.
preprocess(d, target_column, columns) ==
    IF DeriveFromFechaI(d) # "ok" THEN {Raised(DeriveFromFechaI(d), 97)}
    ELSE IF d.rows = <<>>
        THEN {Raised("ValueError", 99), Encode(d, target_column, columns)}
    ELSE IF DeriveMinDiff(d) # "ok" THEN {Raised(DeriveMinDiff(d), 99)}
    ELSE {Encode(d, target_column, columns)}

\* data_processed = data.copy(): the new columns go to the copy, the caller's
\* frame is what it was
CallerFrame(d, target_column) == d

PreprocessCall(d, target_column) ==
    \E r \in preprocess(d, target_column, _feature_columns) :
        /\ ret' = [op |-> "preprocess", data |-> d,
                   target_column |-> target_column, status |-> r.status,
                   line |-> r.line, features |-> r.features,
                   target |-> r.target]
        /\ data' = CallerFrame(d, target_column)
        /\ ObjectUnchanged

-----------------------------------------------------------------------------
(* Input frames *)

MaxBatch == 2

Airlines == {"Copa Air", "Grupo LATAM", "Avianca"}

Months == {7, 4, 1}

FlightTypes == {"I", "N"}

\* the timestamps api.py fills in
DummyFechaI == Stamp(2023, 1, 1, 10, 0, 0)
DummyFechaO == Stamp(2023, 1, 1, 10, 15, 0)

Row(opera, tipovuelo, mes, fecha_i, fecha_o) ==
    ("OPERA" :> opera) @@ ("TIPOVUELO" :> tipovuelo) @@ ("MES" :> mes)
        @@ ("Fecha-I" :> fecha_i) @@ ("Fecha-O" :> fecha_o)

CategoryRows ==
    {Row(o, t, m, DummyFechaI, DummyFechaO) :
        o \in Airlines, t \in FlightTypes, m \in Months}

\* scheduled and actual departures: on time, 15 min, 15 min 1 s, 16 min, early,
\* across midnight and across the year's end, and text strptime rejects
FechaPairs ==
    {<<DummyFechaI, Stamp(2023, 1, 1, 10, 15, 1)>>,
     <<DummyFechaI, Stamp(2023, 1, 1, 10, 16, 0)>>,
     <<DummyFechaI, Stamp(2023, 1, 1, 10, 0, 0)>>,
     <<DummyFechaI, Stamp(2023, 1, 1, 9, 50, 0)>>,
     <<Stamp(2023, 1, 1, 23, 50, 0), Stamp(2023, 1, 2, 0, 5, 0)>>,
     <<Stamp(2023, 12, 31, 23, 50, 0), Stamp(2024, 1, 1, 0, 5, 1)>>,
     <<Stamp(2024, 2, 28, 23, 50, 0), Stamp(2024, 2, 29, 0, 6, 0)>>,
     <<DummyFechaI, Stamp(2023, 2, 30, 10, 0, 0)>>,
     <<[DummyFechaI EXCEPT !.fmt = FALSE], DummyFechaO>>}

TimedRows == {Row("Avianca", "N", 7, p[1], p[2]) : p \in FechaPairs}

Rows == CategoryRows \union TimedRows

RECURSIVE SeqsUpTo(_, _)
SeqsUpTo(S, n) ==
    IF n = 0 THEN {<<>>}
    ELSE LET shorter == SeqsUpTo(S, n - 1)
         IN  shorter \union {Append(q, x) : q \in shorter, x \in S}

Restrict(row, cols) == [c \in cols |-> row[c]]

\* pd.DataFrame(list of records): the columns are the records' keys, and a frame
\* built from no record has no column
DataFrame(records) ==
    Frame(IF records = <<>> THEN {} ELSE DOMAIN records[1], records)

ColumnSets ==
    {{"OPERA", "TIPOVUELO", "MES", "Fecha-I", "Fecha-O"},
     {"OPERA", "TIPOVUELO", "MES", "Fecha-I"},
     {"OPERA", "TIPOVUELO", "MES"}}

\* the frames of the given record lists under each column set, and the frames
\* that have the columns and no row
FramesOf(rowSeqs) ==
    {DataFrame([i \in DOMAIN q |-> Restrict(q[i], cols)]) :
        q \in rowSeqs, cols \in ColumnSets}
      \union {Frame(cols, <<>>) : cols \in ColumnSets}

Frames == FramesOf(SeqsUpTo(Rows, MaxBatch))

InitFeatures ==
    /\ Constructed
    /\ data \in Frames

PreprocessFrame ==
    /\ ret = NoCall
    /\ \E target_column \in {None, "delay"} : PreprocessCall(data, target_column)

NextFeatures == PreprocessFrame

SpecFeatures == InitFeatures /\ [][NextFeatures]_vars

-----------------------------------------------------------------------------
(* sklearn.linear_model.LogisticRegression, as DelayModel uses it.  The solver   *)
(* is not part of the repository: the stand-in keeps that the trained attributes *)
(* are a function of the training rows, the labels and class_weight, and that a  *)
(* prediction is a function of the trained attributes and the row.               *)

RECURSIVE GCD(_, _)
GCD(a, b) == IF b = 0 THEN a ELSE GCD(b, a % b)

\* the float a / b, as its reduced fraction
Ratio(a, b) == [num |-> a \div GCD(a, b), den |-> b \div GCD(a, b)]

\* len(q[q == v])
Count(q, v) == Cardinality({i \in DOMAIN q : q[i] = v})

RECURSIVE Dot(_, _)
Dot(u, v) == IF u = <<>> THEN 0 ELSE Head(u) * Head(v) + Dot(Tail(u), Tail(v))

\* LogisticRegression(class_weight=..., random_state=...): no trained attribute
LogisticRegression(class_weight, random_state) ==
    [kind |-> "LogisticRegression", class_weight |-> class_weight,
     random_state |-> random_state, classes_ |-> {}, coef_ |-> <<>>,
     intercept_ |-> <<>>]

IsTrained(m) == m.kind = "LogisticRegression" /\ m.coef_ # <<>>

\* estimator.fit(X, y): [status, estimator].  A length mismatch is rejected before
\* any attribute is set; classes_ is set before the solver rejects a target with
\* one class or a class_weight key that is no class of the target.
LibFit(est, X, y) ==
    LET n       == Len(y)
        classes == SeqToSet(y)
        weight(c) ==
            IF c = 1 THEN est.class_weight.c1.num * (n \div est.class_weight.c1.den)
            ELSE IF c = 0 THEN est.class_weight.c0.num * (n \div est.class_weight.c0.den)
            ELSE n
        rowsOf(c, j) == Cardinality({i \in DOMAIN y : y[i] = c /\ X[i][j] = 1})
    IN  IF Len(X) # Len(y) THEN [status |-> "ValueError", estimator |-> est]
        ELSE IF Cardinality(classes) < 2 \/ ~({0, 1} \subseteq classes)
            THEN [status |-> "ValueError",
                  estimator |-> [est EXCEPT !.classes_ = classes]]
        ELSE [status |-> "ok",
              estimator |->
                [est EXCEPT
                    !.classes_ = classes,
                    !.coef_ = [c \in classes |->
                                  [j \in DOMAIN X[1] |-> weight(c) * rowsOf(c, j)]],
                    !.intercept_ = [c \in classes |->
                                  weight(c) * Count(y, c)]]]

Score(est, c, x) == est.intercept_[c] + Dot(est.coef_[c], x)

\* the class of the highest score, the lowest such class on a tie
Decide(est, x) ==
    CHOOSE c \in est.classes_ :
        \A o \in est.classes_ :
            Score(est, c, x) > Score(est, o, x)
              \/ (Score(est, c, x) = Score(est, o, x) /\ c <= o)

\* estimator.predict(X): [status, labels]
LibPredict(est, X) ==
    IF est.classes_ = {} THEN [status |-> "NotFittedError", labels |-> <<>>]
    ELSE IF est.coef_ = <<>> THEN [status |-> "AttributeError", labels |-> <<>>]
    ELSE IF X = <<>> THEN [status |-> "ValueError", labels |-> <<>>]
    ELSE [status |-> "ok", labels |-> [i \in DOMAIN X |-> Decide(est, X[i])]]

-----------------------------------------------------------------------------
(* DelayModel.fit, DelayModel.predict *)

fit_once(m, features, target) ==
    LET n_y0 == Count(target, 0)
        n_y1 == Count(target, 1)
    IN  IF Len(target) = 0
            THEN [status |-> "ZeroDivisionError", line |-> 146, model |-> m]
        ELSE IF IsTrained(m) THEN [status |-> "ok", line |-> 151, model |-> m]
        ELSE LET est == LogisticRegression(
                            [c1 |-> Ratio(n_y0, Len(target)),
                             c0 |-> Ratio(n_y1, Len(target))], 42)
                 r   == LibFit(est, features, target)
             IN  [status |-> r.status, line |-> 151, model |-> r.estimator]

\* fit(features, target) on a DelayModel whose _model is m: the outcome and the
\* _model it leaves.  _model is assigned the new estimator before it is trained.
fit(m, features, target) ==
    LET n_y0 == Count(target, 0)
        n_y1 == Count(target, 1)
    IN  IF Len(target) = 0
            THEN [status |-> "ZeroDivisionError", line |-> 146, model |-> m]
        ELSE LET est == LogisticRegression(
                            [c1 |-> Ratio(n_y0, Len(target)),
                             c0 |-> Ratio(n_y1, Len(target))], 42)
                 r   == LibFit(est, features, target)
             IN  [status |-> r.status, line |-> 151, model |-> r.estimator]

predict_forgets(m, features) ==
    IF m = NoModel
        THEN [status |-> "ValueError", line |-> 167, labels |-> <<>>, model |-> m]
    ELSE LET r == LibPredict(m, features)
         IN  [status |-> r.status, line |-> 169, labels |-> r.labels,
              model |-> [m EXCEPT !.coef_ = [c \in DOMAIN @ |->
                                                [j \in DOMAIN @[c] |-> 0]]]]

\* predict(features) on a DelayModel whose _model is m: the outcome and the
\* _model it leaves (predict assigns nothing)
predict(m, features) ==
    IF m = NoModel
        THEN [status |-> "ValueError", line |-> 167, labels |-> <<>>, model |-> m]
    ELSE LET r == LibPredict(m, features)
         IN  [status |-> r.status, line |-> 169, labels |-> r.labels, model |-> m]

FitCall(features, target) ==
    LET r == fit(_model, features, target)
    IN  /\ _model' = r.model
        /\ ret' = [op |-> "fit", status |-> r.status, line |-> r.line,
                   n_features |-> Len(features), n_target |-> Len(target),
                   labels |-> SeqToSet(target),
                   n_y0 |-> Count(target, 0),
                   n_y1 |-> Count(target, 1)]
        /\ fit_done' = (fit_done \/ r.status = "ok")
        /\ UNCHANGED <<_label_encoders, _feature_columns, data, startup>>

PredictCall(features) ==
    LET r == predict(_model, features)
    IN  /\ _model' = r.model
        /\ ret' = [op |-> "predict", status |-> r.status, line |-> r.line,
                   features |-> features, labels |-> r.labels]
        /\ UNCHANGED <<_label_encoders, _feature_columns, data, startup, fit_done>>

-----------------------------------------------------------------------------
(* A DelayModel object and its callers: any sequence of preprocess, fit and     *)
(* predict calls                                                                *)

MaxRows == 3

Labels == {0, 1, 2}

ZeroVector == [j \in DOMAIN DefaultColumns |-> 0]

Mes7Vector == [j \in DOMAIN DefaultColumns |-> IF j = 2 THEN 1 ELSE 0]

IsSorted(q) == \A i \in 1..(Len(q) - 1) : q[i] <= q[i + 1]

\* training sets: a target of up to MaxRows labels (in nondecreasing order) with
\* feature rows that set MES_7 on the rows labelled 1, and the same with one
\* feature row too many
TrainingSets ==
    LET marked(y) == [i \in DOMAIN y |-> IF y[i] = 1 THEN Mes7Vector ELSE ZeroVector]
    IN  UNION {{<<marked(y), y>>, <<Append(marked(y), ZeroVector), y>>} :
                    y \in {q \in SeqsUpTo(Labels, MaxRows) : IsSorted(q)}}

PredictInputs ==
    {<<>>, <<ZeroVector>>, <<Mes7Vector>>, <<Mes7Vector, ZeroVector>>}

SpecFrames ==
    LET r1 == Row("Avianca", "N", 7, DummyFechaI, DummyFechaO)
        r2 == Row("Copa Air", "I", 4, DummyFechaI, Stamp(2023, 1, 1, 10, 16, 0))
        r3 == Row("Grupo LATAM", "I", 1, [DummyFechaI EXCEPT !.fmt = FALSE],
                  DummyFechaO)
    IN  {DataFrame(<<r1, r2>>), DataFrame(<<r3>>),
         DataFrame(<<Restrict(r1, {"OPERA", "TIPOVUELO", "MES"})>>)}

Init ==
    /\ Constructed
    /\ data = Frame({}, <<>>)

Preprocess ==
    \E d \in SpecFrames, target_column \in {None, "delay"} :
        PreprocessCall(d, target_column)

Fit == \E t \in TrainingSets : FitCall(t[1], t[2])

Predict == \E features \in PredictInputs : PredictCall(features)

Next == Preprocess \/ Fit \/ Predict

Spec == Init /\ [][Next]_vars

-----------------------------------------------------------------------------
(* api.py: training at import, then the /predict handler *)

MaxDataset == 2

VALID_AIRLINES ==
    {"Aerolineas Argentinas", "Aeromexico", "Air Canada", "Air France",
     "Alitalia", "American Airlines", "Austral", "Avianca", "British Airways",
     "Copa Air", "Delta Air", "Gol Trans", "Grupo LATAM", "Iberia",
     "JetSmart SPA", "K.L.M.", "Lacsa", "Latin American Wings",
     "Oceanair Linhas Aereas", "Plus Ultra Lineas Aereas", "Qantas Airways",
     "Sky Airline", "United Airlines"}

FlightData(opera, tipovuelo, mes) ==
    [OPERA |-> opera, TIPOVUELO |-> tipovuelo, MES |-> mes]

Flights ==
    {FlightData("Avianca", "N", 7), FlightData("Copa Air", "I", 4),
     FlightData("Unknown Air", "N", 7), FlightData("Avianca", "X", 7),
     FlightData("Avianca", "N", 13)}

Requests == SeqsUpTo(Flights, MaxBatch)

\* the rows of data/data.csv
DatasetRows ==
    {Row("Avianca", "N", 7, DummyFechaI, DummyFechaO),
     Row("Copa Air", "I", 4, DummyFechaI, Stamp(2023, 1, 1, 10, 16, 0)),
     Row("Grupo LATAM", "I", 7, DummyFechaI, Stamp(2023, 1, 1, 9, 50, 0)),
     Row("Grupo LATAM", "I", 1, [DummyFechaI EXCEPT !.fmt = FALSE], DummyFechaO)}

Datasets == FramesOf(SeqsUpTo(DatasetRows, MaxDataset))

\* lines 99-119: the first flight that fails a check decides the 400 response
Validate(flights) ==
    LET bad(f) == \/ f.OPERA \notin VALID_AIRLINES
                  \/ f.TIPOVUELO \notin {"I", "N"}
                  \/ f.MES < 1 \/ f.MES > 12
    IN  IF \E i \in DOMAIN flights : bad(flights[i])
        THEN LET i == CHOOSE k \in DOMAIN flights :
                        bad(flights[k]) /\ \A l \in 1..(k - 1) : ~bad(flights[l])
                 f == flights[i]
             IN  IF f.OPERA \notin VALID_AIRLINES THEN "Invalid airline"
                 ELSE IF f.TIPOVUELO \notin {"I", "N"} THEN "Invalid TIPOVUELO"
                 ELSE "Invalid MES"
        ELSE "ok"

\* lines 122-144: each flight with the dummy values for the other columns
flights_data(flights) ==
    [i \in DOMAIN flights |->
        Row(flights[i].OPERA, flights[i].TIPOVUELO, flights[i].MES,
            DummyFechaI, DummyFechaO)]

import_swallows(status) == "serving"

\* initialize_model() runs while the module is imported: its except clause
\* re-raises, the import fails and the application never serves
import_outcome(status) == IF status = "ok" THEN "serving" ELSE "aborted"

InitApi ==
    /\ Constructed
    /\ data \in Datasets

InitializeModel ==
    /\ startup = "pending"
    /\ \E readable \in BOOLEAN :
        IF ~readable
        THEN /\ ret' = [op |-> "initialize_model", status |-> "FileNotFoundError",
                        line |-> 17]
             /\ startup' = import_outcome("FileNotFoundError")
             /\ UNCHANGED <<_model, fit_done>>
        ELSE \E p \in preprocess(data, "delay", _feature_columns) :
                IF p.status # "ok"
                THEN /\ ret' = [op |-> "initialize_model", status |-> p.status,
                                line |-> 20]
                     /\ startup' = import_outcome(p.status)
                     /\ UNCHANGED <<_model, fit_done>>
                ELSE LET f == fit(_model, p.features, p.target)
                     IN  /\ _model' = f.model
                         /\ fit_done' = (fit_done \/ f.status = "ok")
                         /\ ret' = [op |-> "initialize_model", status |-> f.status,
                                    line |-> 23]
                         /\ startup' = import_outcome(f.status)
    /\ data' = CallerFrame(data, "delay")
    /\ UNCHANGED <<_label_encoders, _feature_columns>>

Response(flights, code, detail, predictions) ==
    [op |-> "post_predict", flights |-> flights, status_code |-> code,
     detail |-> detail, predict |-> predictions]

\* the handler is a coroutine without an await: it runs to its response
PostPredict ==
    /\ startup = "serving"
    /\ \E flights \in Requests :
        IF Validate(flights) # "ok"
        THEN /\ ret' = Response(flights, 400, Validate(flights), <<>>)
             /\ UNCHANGED _model
        ELSE \E p \in preprocess(DataFrame(flights_data(flights)), None,
                                 _feature_columns) :
                IF p.status # "ok"
                THEN /\ ret' = Response(flights, 500, p.status, <<>>)
                     /\ UNCHANGED _model
                ELSE LET r == predict(_model, p.features)
                     IN  /\ _model' = r.model
                         /\ ret' = IF r.status = "ok"
                                   THEN Response(flights, 200, "", r.labels)
                                   ELSE Response(flights, 500, r.status, <<>>)
    /\ UNCHANGED <<_label_encoders, _feature_columns, data, startup, fit_done>>

NextApi == InitializeModel \/ PostPredict

SpecApi == InitApi /\ [][NextApi]_vars

-----------------------------------------------------------------------------
(* Claims about the derivations *)

SecondOfDay(st) == st.h * 3600 + st.m * 60 + st.s

\* the instants the source names as bounds: 00:00, 04:59, 05:00, 11:59, 12:00,
\* 18:59, 19:00, 23:59
BoundInstants == {0, 17940, 18000, 43140, 43200, 68340, 68400, 86340}

PeriodBySecond(sec) ==
    IF sec > 18000 /\ sec < 43140 THEN "mañana"
    ELSE IF sec > 43200 /\ sec < 68340 THEN "tarde"
    ELSE IF (sec > 68400 /\ sec < 86340) \/ (sec > 0 /\ sec < 17940) THEN "noche"
    ELSE None

\* C10 as stated: the category inside the open intervals, and no category exactly
\* at the bound instants and at no other time
C10_AsStated ==
    ret.op = "_get_period_day" =>
        /\ ret.result = PeriodBySecond(SecondOfDay(ret.date))
        /\ (ret.result = None <=> SecondOfDay(ret.date) \in BoundInstants)

\* C10: for every time of day at second resolution, _get_period_day returns morning
\* strictly between 05:00:00 and 11:59:00, afternoon strictly between 12:00:00 and
\* 18:59:00, night strictly between 19:00:00 and 23:59:00 or strictly between
\* 00:00:00 and 04:59:00, and no category at every other time: at the bound
\* instants and at every second from an upper bound up to the next lower bound
\* (04:59:00-05:00:00, 11:59:00-12:00:00, 18:59:00-19:00:00, 23:59:00-00:00:00)
C10_PeriodOfDay ==
    ret.op = "_get_period_day" =>
        LET sec == SecondOfDay(ret.date)
        IN  /\ ret.result = PeriodBySecond(sec)
            /\ (ret.result = None <=>
                    \/ sec \in 17940..18000
                    \/ sec \in 43140..43200
                    \/ sec \in 68340..68400
                    \/ sec >= 86340
                    \/ sec = 0)

\* 11:59:30 is no bound instant and has no category
C10_Witness ==
    /\ ret.op = "_get_period_day"
    /\ ret.date = Stamp(2023, 1, 1, 11, 59, 30)
    /\ ret.result = None

\* the calendar ranges Dec 15-31, Jan 1-Mar 3, Jul 15-31, Sep 11-30
InSeasonByDate(M, D) ==
    \/ (M = 12 /\ D \in 15..31)
    \/ M \in {1, 2}
    \/ (M = 3 /\ D \in 1..3)
    \/ (M = 7 /\ D \in 15..31)
    \/ (M = 9 /\ D \in 11..30)

\* C9: _is_high_season returns 1 if and only if the timestamp's calendar date lies
\* in one of the four ranges, last day included, whatever the time of day
C9_HighSeasonByDate ==
    (ret.op = "_is_high_season" /\ ret.status = "ok") =>
        (ret.result = 1 <=> InSeasonByDate(ret.fecha.M, ret.fecha.D))

-----------------------------------------------------------------------------
(* Claims about preprocess *)

\* the ten contracted slots as (field, value) pairs, in the contracted order
SlotTable ==
    << <<"OPERA", "Latin American Wings">>, <<"MES", 7>>, <<"MES", 10>>,
       <<"OPERA", "Grupo LATAM">>, <<"MES", 12>>, <<"TIPOVUELO", "I">>,
       <<"MES", 4>>, <<"MES", 11>>, <<"OPERA", "Sky Airline">>,
       <<"OPERA", "Copa Air">> >>

\* the direct lookup: slot j is 1 iff the record's field holds the slot's value
Lookup(row) ==
    [j \in DOMAIN SlotTable |->
        IF row[SlotTable[j][1]] = SlotTable[j][2] THEN 1 ELSE 0]

LookupAll(d) == [i \in DOMAIN d.rows |-> Lookup(d.rows[i])]

Categories == {"OPERA", "TIPOVUELO", "MES"}

\* C1: for every batch of records, preprocess returns without error one vector
\* per record, in input order, of the 10 contracted slots, equal to the direct
\* lookup of the record's (prefix, value) pairs
C1_AsStated ==
    (ret.op = "preprocess" /\ ret.data.rows # <<>>) =>
        /\ ret.status = "ok"
        /\ ret.features = LookupAll(ret.data)

\* The encoding of lines 106-120 alone: every call that returns has returned the
\* direct lookup, whichever airlines, months and flight types the batch holds
EncodingIsLookup ==
    (ret.op = "preprocess" /\ ret.status = "ok") =>
        ret.features = LookupAll(ret.data)

\* C2: without label derivation, preprocess accepts records that carry only
\* OPERA, TIPOVUELO and MES and returns their vectors; a missing-field failure
\* occurs only when label derivation is requested and a departure timestamp is
\* absent
C2_AsStated ==
    (ret.op = "preprocess" /\ ret.data.rows # <<>>) =>
        /\ (ret.target_column = None /\ ret.data.columns = Categories)
              => (ret.status = "ok" /\ ret.features = LookupAll(ret.data))
        /\ ret.status = "KeyError"
              => (ret.target_column # None
                    /\ ~({"Fecha-I", "Fecha-O"} \subseteq ret.data.columns))

HasBothStamps(d) ==
    /\ {"Fecha-I", "Fecha-O"} \subseteq d.columns
    /\ \A i \in DOMAIN d.rows :
            Parses(d.rows[i]["Fecha-I"]) /\ Parses(d.rows[i]["Fecha-O"])

\* seconds from 2023-01-01 00:00:00 to a timestamp of 2023 or 2024
SecondsSince2023(st) ==
    LET cumulative == <<0, 31, 59, 90, 120, 151, 181, 212, 243, 273, 304, 334>>
        dayOfYear  == cumulative[st.M] + st.D
                        + (IF st.Y = 2024 /\ st.M > 2 THEN 1 ELSE 0)
        days       == (IF st.Y = 2024 THEN 365 ELSE 0) + dayOfYear - 1
    IN  days * 86400 + SecondOfDay(st)

LateSeconds(row) == SecondsSince2023(row["Fecha-O"]) - SecondsSince2023(row["Fecha-I"])

\* C8: when label derivation is requested, preprocess returns one label per
\* record, 1 if and only if actual minus scheduled departure is strictly more
\* than 15 minutes (900 s), 0 at exactly 15 minutes and for early departures
C8_DelayLabel ==
    (ret.op = "preprocess" /\ ret.target_column # None) =>
        /\ (HasBothStamps(ret.data) /\ Categories \subseteq ret.data.columns
                /\ ret.data.rows # <<>>) => ret.status = "ok"
        /\ ret.status = "ok" =>
              /\ DOMAIN ret.target = DOMAIN ret.data.rows
              /\ \A i \in DOMAIN ret.target :
                    ret.target[i] = IF LateSeconds(ret.data.rows[i]) > 900 THEN 1 ELSE 0

\* a batch holding a departure 15 min late (label 0) and one 15 min 1 s late
\* across the year's end (label 1)
C8_Witness ==
    /\ ret.op = "preprocess"
    /\ ret.target_column = "delay"
    /\ ret.status = "ok"
    /\ \E i, k \in DOMAIN ret.target :
          /\ ret.data.rows[i]["Fecha-I"] = DummyFechaI
          /\ ret.data.rows[i]["Fecha-O"] = DummyFechaO
          /\ ret.target[i] = 0
          /\ ret.data.rows[k]["Fecha-I"] = Stamp(2023, 12, 31, 23, 50, 0)
          /\ ret.target[k] = 1

-----------------------------------------------------------------------------
(* Claims about fit and predict *)

\* C3: while no fit call has completed successfully (a fit call that failed
\* part-way included), predict fails with the model's unfitted error (line 167),
\* returns no labels and leaves the classifier unfitted (_model is None)
C3_AsStated ==
    (ret.op = "predict" /\ ~fit_done) =>
        /\ ret.status = "ValueError" /\ ret.line = 167
        /\ ret.labels = <<>>
        /\ _model = NoModel

\* C4 as stated, for the later fit calls that return: once trained, _model keeps
\* the same trained state; a later fit call, on the same or on other training
\* data, does not replace it
C4_AsStated ==
    [][(IsTrained(_model) /\ ret'.op = "fit" /\ ret'.status = "ok")
            => _model' = _model]_vars

\* C4: once trained, _model is changed by nothing but a fit call, and a later fit
\* call does replace it: by a model trained on that call's data, with the class
\* weights of that call's target, when the call returns; by an untrained
\* estimator when training raises; an empty target raises before the assignment
\* and leaves it
C4_RefitReplaces ==
    [][IsTrained(_model) =>
        /\ (_model' # _model => ret'.op = "fit")
        /\ (ret'.op = "fit" /\ ret'.status = "ok") =>
              /\ IsTrained(_model')
              /\ _model'.classes_ = ret'.labels
              /\ _model'.class_weight =
                    [c1 |-> Ratio(ret'.n_y0, ret'.n_target),
                     c0 |-> Ratio(ret'.n_y1, ret'.n_target)]
        /\ (ret'.op = "fit" /\ ret'.status = "ValueError") => ~IsTrained(_model')
        /\ (ret'.op = "fit" /\ ret'.status = "ZeroDivisionError") => _model' = _model
    ]_vars

\* a fit call has returned and a later one, raising in training, has left an
\* untrained estimator in its place
C4_Witness ==
    /\ fit_done
    /\ ret.op = "fit"
    /\ ret.status = "ValueError"
    /\ ~IsTrained(_model)

\* C6: once trained, no preprocess call and no predict call changes _model, the
\* slot list or the caller's frame, and predicting again on the same rows returns
\* the same labels
C6_ReadOnlyAfterFit ==
    [][(IsTrained(_model) /\ ret'.op \in {"preprocess", "predict"}) =>
        /\ _model' = _model
        /\ _feature_columns' = _feature_columns
        /\ _label_encoders' = _label_encoders
        /\ ret'.op = "preprocess" => data' = ret'.data
        /\ (ret.op = "predict" /\ ret'.op = "predict" /\ ret.status = "ok"
                /\ ret'.features = ret.features) => ret'.labels = ret.labels
    ]_vars

\* a trained model has predicted a delay for a row
C6_Witness ==
    /\ IsTrained(_model)
    /\ ret.op = "predict"
    /\ ret.status = "ok"
    /\ \E i \in DOMAIN ret.labels : ret.labels[i] = 1

\* C7: fit raises, and leaves no trained model, whenever the target holds a value
\* outside {0,1} or the numbers of feature rows and of labels differ
C7_AsStated ==
    (ret.op = "fit" /\ (~(ret.labels \subseteq {0, 1}) \/ ret.n_features # ret.n_target))
        => (ret.status # "ok" /\ ~IsTrained(_model))

-----------------------------------------------------------------------------
(* Claims about the service *)

\* C5: a prediction request is handled only after the startup preprocess and fit
\* have both returned; when either raises, startup aborts and no request is ever
\* handled, so no request meets an untrained model
C5_ServeOnlyTrained ==
    /\ ret.op = "post_predict" => startup = "serving"
    /\ startup = "serving" => (fit_done /\ IsTrained(_model))
    /\ (ret.op = "initialize_model" /\ ret.status # "ok") => startup = "aborted"
    /\ startup = "aborted" => (ret.op = "initialize_model" /\ ret.status # "ok")

\* the service answers {Avianca, N, 7} with one label
C5_Witness ==
    /\ ret.op = "post_predict"
    /\ ret.flights = <<FlightData("Avianca", "N", 7)>>
    /\ ret.status_code = 200
    /\ Len(ret.predict) = 1

=============================================================================
